---- MODULE Spec2Model ----
(***************************************************************************)
(* Model of the book club bot's rate-limit guards (utils/security.py),     *)
(* the spam middleware that wraps every message (utils/spam_middleware.py) *)
(* and the registration handlers that call the login guard                 *)
(* (handlers/user_handlers.py).                                            *)
(*                                                                         *)
(* Time is counted in whole seconds; every datetime.now() read inside one  *)
(* dispatched event sees the same second.  A dispatched event is one       *)
(* action: the middleware followed by the handler the router selects.      *)
(* users.json is assumed writable (save_json succeeds).                    *)
(***************************************************************************)
EXTENDS Integers, Sequences, FiniteSets, TLC

VARIABLES now, ticks, users, fsm, login_attempts, spam_protection,
          last, fails, seen, passed, tasks,
          books, md5, cb, through, event_store, user_store, io, bc

\* the guards, the users' statuses, the FSM storage and the observations made
\* of them
guard_vars == <<now, ticks, users, fsm, login_attempts, spam_protection,
                last, fails, seen, passed>>

\* the events in flight
task_vars == <<tasks>>

\* books.json, the MD5 digests and the last call of utils/callback_utils.py
callback_vars == <<books, md5, cb>>

\* the times of the latest events of banned users that reached a handler
limit_vars == <<through>>

\* events.json and users.json with their cache entries, and the last call of
\* a service
store_vars == <<event_store, user_store, io>>

\* the broadcast task
broadcast_vars == <<bc>>

\* what one dispatched event, taken as a whole, never touches
aux == <<task_vars, callback_vars, limit_vars, store_vars, broadcast_vars>>

\* what a step of the broadcast task never touches
not_broadcast == <<guard_vars, task_vars, callback_vars, limit_vars, store_vars>>

\* what a step of a task in flight never touches
not_tasks == <<callback_vars, limit_vars, store_vars, broadcast_vars>>

\* what a call of utils/callback_utils.py never touches
not_callback == <<guard_vars, task_vars, limit_vars, store_vars, broadcast_vars>>

\* what a message of a banned user never touches
not_limits == <<task_vars, callback_vars, store_vars, broadcast_vars>>

\* what a call of a service never touches, the clock apart
not_store == <<users, fsm, login_attempts, spam_protection, last, fails, seen, passed,
               task_vars, callback_vars, limit_vars, broadcast_vars>>

vars == <<guard_vars, aux>>

(* ------------------------------ bounds -------------------------------- *)
\* number of users of the largest broadcast
MaxUsers == 51
\* number of events events.json can hold
MaxEvents == 3
\* number of events of a banned user whose times are kept
MaxThrough == 4
\* length in characters of the longest data string given to create_callback_data
MaxData == 30
\* number of events in flight at one time
MaxTasks == 2
\* number of clock advances in one run
MaxTicks == 3
\* cap on the failed attempts recorded for one identity
MaxFails == 5
\* length of the recorded history of banned events of one identity
MaxSeen == 4

Ids == {1, 2}

\* config.security.admin_ids
Admins == {2}

(* ------------------------- program constants -------------------------- *)
max_attempts == 3
lockout_duration == 900
cache_ttl == 300
ProgressEvery == 50
MinuteWindow == 60
HourWindow == 3600
DayWindow == 86400
MinuteLimit == 3
HourLimit == 10
DayLimit == 30
MinuteBlock == 300
HourBlock == 3600
DayBlock == 21600

\* Python's None for a timestamp / a missing 'locked_until' key
None == -1

Statuses == {"none", "inactive", "active", "banned"}

(* ------------------------------ records ------------------------------- *)
\* user_id not in self._login_attempts
NoLogin == [present |-> FALSE, count |-> 0, last_attempt |-> None, locked_until |-> None]

\* user_id not in self._spam_protection
NoSpam == [present |-> FALSE, message_count |-> 0, first_message |-> None,
           last_message |-> None, blocked_until |-> None]

(* ------------------------- utils/data_manager.py ----------------------- *)
\* A JSON file and its cache entry: the dictionary in the file (exists tells
\* whether the file is there), the dictionary object in the cache (cached
\* tells whether the key is in the cache) and the time it was put there.
\* A dictionary is a function from its keys.
EmptyDict == <<>>

NoFile == [exists |-> FALSE, file |-> EmptyDict, cached |-> FALSE, cache |-> EmptyDict,
           cached_at |-> None]

\* no service called yet
NoIo == [fn |-> "none", arg |-> None, ret |-> None, before |-> EmptyDict]

\* the dictionary d without the key k
Without(d, k) == [x \in DOMAIN d \ {k} |-> d[x]]

\* the dictionary d with d[k] = v
With(d, k, v) == [x \in DOMAIN d \cup {k} |-> IF x = k THEN v ELSE d[x]]

\* DataManager.load_json at time t: the dictionary returned, whether it is
\* the object held by the cache, and the store left
LoadJson(st, t) ==
    LET hit == st.cached /\ ~(t - st.cached_at > cache_ttl)
        dropped == [st EXCEPT !.cached = FALSE, !.cache = EmptyDict, !.cached_at = None]
    IN  IF hit THEN [data |-> st.cache, shared |-> TRUE, st |-> st]
        ELSE IF ~st.exists THEN [data |-> EmptyDict, shared |-> FALSE, st |-> dropped]
        ELSE [data |-> st.file, shared |-> TRUE,
              st |-> [st EXCEPT !.cached = TRUE, !.cache = st.file, !.cached_at = t]]

\* the store after the caller changed the dictionary load_json returned into
\* data: the object in the cache is the one that was changed
Mutated(loaded, data) ==
    IF loaded.shared THEN [loaded.st EXCEPT !.cache = data] ELSE loaded.st

\* DataManager.save_json; ok: the file could be written.  A failed write
\* leaves the file and the cache as they are.
SaveJson(st, data, ok) ==
    IF ok
    THEN [ret |-> TRUE,
          st |-> [st EXCEPT !.exists = TRUE, !.file = data, !.cached = FALSE,
                            !.cache = EmptyDict, !.cached_at = None]]
    ELSE [ret |-> FALSE, st |-> st]

(* --------------------------- services/events.py ------------------------ *)
\* f"event_{n:03d}" is written as the number n
EventId(n) == n

\* the value create_event returns when it fails
NoId == 0

\* EventService.create_event with data that validate_event_data accepts:
\* the ID returned and the store left
CreateEvent(st, title, t, ok) ==
    LET loaded == LoadJson(st, t)
        event_id == EventId(Cardinality(DOMAIN loaded.data) + 1)
        events == With(loaded.data, event_id, title)
        saved == SaveJson(Mutated(loaded, events), events, ok)
    IN  [ret |-> IF saved.ret THEN event_id ELSE NoId, st |-> saved.st,
         before |-> loaded.data]

\* EventService.delete_event: the value returned and the store left
DeleteEvent(st, event_id, t, ok) ==
    LET loaded == LoadJson(st, t)
        events == Without(loaded.data, event_id)
        saved == SaveJson(Mutated(loaded, events), events, ok)
    IN  IF event_id \notin DOMAIN loaded.data
        THEN [ret |-> FALSE, st |-> loaded.st, before |-> loaded.data]
        ELSE [ret |-> saved.ret, st |-> saved.st, before |-> loaded.data]

\* EventService.get_all_events
GetAllEvents(st, t) == LoadJson(st, t)

(* --------------------------- services/users.py ------------------------- *)
\* the data of a user: its status and the time activate_user stored
UserData(status, activated_at) == [status |-> status, activated_at |-> activated_at]

\* what get_user returns for an unknown user (None)
NoUser == UserData("none", None)

\* UserService.get_user: the data returned (NoUser for an unknown user) and
\* the store left
GetUser(st, user_id, t) ==
    LET loaded == LoadJson(st, t)
    IN  [ret |-> IF user_id \in DOMAIN loaded.data THEN loaded.data[user_id] ELSE NoUser,
         st |-> loaded.st]

\* UserService.update_user, data being the user's data after
\* users[user_id].update(kwargs): the value returned and the store left
UpdateUser(st, user_id, data, t, ok) ==
    LET loaded == LoadJson(st, t)
        changed == With(loaded.data, user_id, data)
        saved == SaveJson(Mutated(loaded, changed), changed, ok)
    IN  IF user_id \notin DOMAIN loaded.data
        THEN [ret |-> FALSE, st |-> loaded.st, before |-> loaded.data]
        ELSE [ret |-> saved.ret, st |-> saved.st, before |-> loaded.data]

\* the data of user_id in the dictionary load_json returns
Stored(st, user_id, t) == GetUser(st, user_id, t).ret

\* UserService.ban_user
BanUser(st, user_id, t, ok) ==
    LET old == Stored(st, user_id, t)
    IN  UpdateUser(st, user_id,
                   IF old = NoUser THEN NoUser ELSE [old EXCEPT !.status = "banned"], t, ok)

\* UserService.unban_user
UnbanUser(st, user_id, t, ok) ==
    LET old == Stored(st, user_id, t)
    IN  UpdateUser(st, user_id,
                   IF old = NoUser THEN NoUser ELSE [old EXCEPT !.status = "active"], t, ok)

\* UserService.activate_user on the store
ActivateStoredUser(st, user_id, t, ok) ==
    LET got == GetUser(st, user_id, t)
    IN  IF got.ret = NoUser THEN [ret |-> FALSE, st |-> got.st, before |-> LoadJson(st, t).data]
        ELSE IF got.ret.status = "active"
        THEN [ret |-> TRUE, st |-> got.st, before |-> LoadJson(st, t).data]
        ELSE UpdateUser(got.st, user_id, UserData("active", t), t, ok)

(* ------------------------- utils/callback_utils.py --------------------- *)
\* A str is a sequence of code points; encode('utf-8') gives each code point
\* 1 to 4 bytes.
Utf8Bytes(ch) == IF ch < 128 THEN 1 ELSE IF ch < 2048 THEN 2 ELSE IF ch < 65536 THEN 3 ELSE 4

RECURSIVE Utf8Len(_)
\* len(s.encode('utf-8'))
Utf8Len(s) == IF s = <<>> THEN 0 ELSE Utf8Bytes(Head(s)) + Utf8Len(Tail(s))

\* the string of n characters ch
Rep(ch, n) == [i \in 1..n |-> ch]

\* ":"
Colon == 58

\* "book"
Book == <<98, 111, 111, 107>>

\* "user"
User == <<117, 115, 101, 114>>

\* "show"
Show == <<115, 104, 111, 119>>

\* an action name of 61 characters
LongAction == Rep(97, 61)

\* book titles: a short Cyrillic one, an ASCII one of 11 characters and a
\* Cyrillic one of 12 characters
Titles == {<<1042, 1086, 1081, 1085, 1072>>, Rep(97, 11), Rep(1103, 12)}

\* hexdigest()[:16]: 16 hexadecimal digits
Hex16(digit) == Rep(digit, 16)

\* the digests titles can have
Digests == {Hex16(48), Hex16(102)}

\* the data strings given to create_callback_data
DataStrings == Titles \cup {Rep(ch, n) : ch \in {97, Colon, 1103}, n \in 0..MaxData}

\* no call made yet
NoCall == [fn |-> "none", args |-> <<>>, ret |-> <<>>]

\* the value None where a str is expected
NoneStr == <<None>>

\* the attributes of DataManager that can be called
DataManagerMethods ==
    {"load_json", "save_json", "validate_user_data", "validate_book_data",
     "validate_event_data"}

\* BookService.get_all_books: it calls data_manager.load_data, and a call of
\* an attribute the object does not have raises AttributeError
GetAllBooks ==
    IF "load_data" \in DataManagerMethods
    THEN [raised |-> FALSE, books |-> books]
    ELSE [raised |-> TRUE, books |-> <<>>]

\* safe_encode_title
SafeEncodeTitle(title) == IF title = <<>> THEN <<>> ELSE md5[title]

RECURSIVE FirstMatch(_, _)
\* the loop of safe_decode_title over the keys ks: the first key whose
\* encoding is encoded_title, and encoded_title when there is none
FirstMatch(ks, encoded_title) ==
    IF ks = <<>> THEN encoded_title
    ELSE IF SafeEncodeTitle(Head(ks)) = encoded_title THEN Head(ks)
    ELSE FirstMatch(Tail(ks), encoded_title)

\* safe_decode_title
SafeDecodeTitle(encoded_title) ==
    IF encoded_title = <<>> THEN NoneStr
    ELSE LET all == GetAllBooks
         IN  IF all.raised THEN encoded_title
             ELSE FirstMatch(all.books, encoded_title)

\* data[:n] of Python: a negative n counts from the end
Slice(data, n) ==
    LET k == IF n >= 0 THEN n ELSE Len(data) + n
    IN  IF k <= 0 THEN <<>> ELSE IF k >= Len(data) THEN data ELSE SubSeq(data, 1, k)

RECURSIVE RStrip(_, _)
\* data.rstrip(ch)
RStrip(data, ch) ==
    IF data # <<>> /\ data[Len(data)] = ch THEN RStrip(SubSeq(data, 1, Len(data) - 1), ch)
    ELSE data

\* f"{prefix}:{action}:{data}"
Callback(prefix, action, data) == prefix \o <<Colon>> \o action \o <<Colon>> \o data

\* create_callback_data
CreateCallbackData(prefix, action, data) ==
    LET coded == IF prefix = Book /\ Len(data) > 10 THEN SafeEncodeTitle(data) ELSE data
        callback == Callback(prefix, action, coded)
        max_data_length == 64 - Utf8Len(prefix \o <<Colon>> \o action \o <<Colon>>)
    IN  IF Utf8Len(callback) > 64
        THEN Callback(prefix, action, RStrip(Slice(coded, max_data_length), Colon))
        ELSE callback

(* --------------------------- login guard ------------------------------ *)
\* check_login_attempts returning False for an identity without a record
CheckLoginAttempts_DeniesFresh(rec, t) ==
    IF ~rec.present THEN [ret |-> FALSE, rec |-> rec]
    ELSE IF rec.locked_until # None /\ t < rec.locked_until
         THEN [ret |-> FALSE, rec |-> rec]
    ELSE LET unlocked == [rec EXCEPT !.locked_until = None]
         IN  IF unlocked.count >= max_attempts
             THEN [ret |-> FALSE,
                   rec |-> [unlocked EXCEPT !.locked_until = t + lockout_duration]]
             ELSE [ret |-> TRUE, rec |-> unlocked]

\* check_login_attempts comparing count > max_attempts
CheckLoginAttempts_OffByOne(rec, t) ==
    IF ~rec.present THEN [ret |-> TRUE, rec |-> rec]
    ELSE IF rec.locked_until # None /\ t < rec.locked_until
         THEN [ret |-> FALSE, rec |-> rec]
    ELSE LET unlocked == [rec EXCEPT !.locked_until = None]
         IN  IF unlocked.count > max_attempts
             THEN [ret |-> FALSE,
                   rec |-> [unlocked EXCEPT !.locked_until = t + lockout_duration]]
             ELSE [ret |-> TRUE, rec |-> unlocked]

\* check_login_attempts setting a lockout that ends when it starts
CheckLoginAttempts_ZeroLock(rec, t) ==
    IF ~rec.present THEN [ret |-> TRUE, rec |-> rec]
    ELSE IF rec.locked_until # None /\ t < rec.locked_until
         THEN [ret |-> FALSE, rec |-> rec]
    ELSE LET unlocked == [rec EXCEPT !.locked_until = None]
         IN  IF unlocked.count >= max_attempts
             THEN [ret |-> FALSE, rec |-> [unlocked EXCEPT !.locked_until = t]]
             ELSE [ret |-> TRUE, rec |-> unlocked]

\* SecurityManager.check_login_attempts: the value returned and the record left
CheckLoginAttempts(rec, t) ==
    IF ~rec.present THEN [ret |-> TRUE, rec |-> rec]
    ELSE IF rec.locked_until # None /\ t < rec.locked_until
         THEN [ret |-> FALSE, rec |-> rec]
    ELSE LET unlocked == [rec EXCEPT !.locked_until = None]
         IN  IF unlocked.count >= max_attempts
             THEN [ret |-> FALSE,
                   rec |-> [unlocked EXCEPT !.locked_until = t + lockout_duration]]
             ELSE [ret |-> TRUE, rec |-> unlocked]

\* record_login_attempt that keeps 'locked_until' on success
RecordLoginAttempt_KeepsLock(rec, success, t) ==
    LET created == IF rec.present THEN rec ELSE [NoLogin EXCEPT !.present = TRUE]
        counted == IF success
                   THEN [created EXCEPT !.count = 0]
                   ELSE [created EXCEPT !.count = created.count + 1]
    IN  [counted EXCEPT !.last_attempt = t]

\* record_login_attempt that locks when the count reaches max_attempts
RecordLoginAttempt_Decides(rec, success, t) ==
    LET created == IF rec.present THEN rec ELSE [NoLogin EXCEPT !.present = TRUE]
        counted == IF success
                   THEN [created EXCEPT !.count = 0, !.locked_until = None]
                   ELSE IF created.count + 1 >= max_attempts
                   THEN [created EXCEPT !.count = created.count + 1,
                                        !.locked_until = t + lockout_duration]
                   ELSE [created EXCEPT !.count = created.count + 1]
    IN  [counted EXCEPT !.last_attempt = t]

\* record_login_attempt deleting the record of an identity that succeeded
RecordLoginAttempt_Evicts(rec, success, t) ==
    LET created == IF rec.present THEN rec ELSE [NoLogin EXCEPT !.present = TRUE]
    IN  IF success THEN NoLogin
        ELSE [created EXCEPT !.count = created.count + 1, !.last_attempt = t]

\* SecurityManager.record_login_attempt
RecordLoginAttempt(rec, success, t) ==
    LET created == IF rec.present THEN rec ELSE [NoLogin EXCEPT !.present = TRUE]
        counted == IF success
                   THEN [created EXCEPT !.count = 0, !.locked_until = None]
                   ELSE [created EXCEPT !.count = created.count + 1]
    IN  [counted EXCEPT !.last_attempt = t]

(* ---------------------------- spam guard ------------------------------ *)
\* the chain with time_diff < 3600 for the hour branch
SpamTier_StrictHour(time_diff) ==
    IF time_diff <= MinuteWindow THEN 1
    ELSE IF time_diff < HourWindow THEN 2
    ELSE IF time_diff <= DayWindow THEN 3
    ELSE 4

\* the branch of the if/elif/else chain chosen by time_diff
SpamTier(time_diff) ==
    IF time_diff <= MinuteWindow THEN 1
    ELSE IF time_diff <= HourWindow THEN 2
    ELSE IF time_diff <= DayWindow THEN 3
    ELSE 4

\* the message_count at which the branch blocks
SpamLimit(tier) ==
    IF tier = 1 THEN MinuteLimit ELSE IF tier = 2 THEN HourLimit ELSE DayLimit

\* the minute branch blocking for an hour
SpamBlock_HourForMinute(tier) ==
    IF tier = 3 THEN DayBlock ELSE HourBlock

\* the timedelta the branch adds to now
SpamBlock(tier) ==
    IF tier = 1 THEN MinuteBlock ELSE IF tier = 2 THEN HourBlock ELSE DayBlock

\* _check_banned_user_spam restarting the lockout on every denied check
CheckBannedUserSpam_ExtendsLock(rec, t) ==
    LET created == IF rec.present THEN rec
                   ELSE [present |-> TRUE, message_count |-> 0, first_message |-> t,
                         last_message |-> t, blocked_until |-> None]
    IN  IF created.blocked_until # None /\ t < created.blocked_until
        THEN [ret |-> FALSE,
              rec |-> [created EXCEPT !.blocked_until =
                          t + SpamBlock(SpamTier(t - created.first_message))]]
        ELSE
        LET expired == IF created.blocked_until # None /\ t >= created.blocked_until
                       THEN [created EXCEPT !.blocked_until = None,
                                            !.message_count = 0,
                                            !.first_message = t]
                       ELSE created
            time_diff == t - expired.first_message
            tier == SpamTier(time_diff)
        IN  IF tier # 4 /\ expired.message_count >= SpamLimit(tier)
            THEN [ret |-> FALSE,
                  rec |-> [expired EXCEPT !.blocked_until = t + SpamBlock(tier)]]
            ELSE
            LET rolled == IF tier = 4
                          THEN [expired EXCEPT !.message_count = 0, !.first_message = t]
                          ELSE expired
            IN  [ret |-> TRUE,
                 rec |-> [rolled EXCEPT !.message_count = rolled.message_count + 1,
                                        !.last_message = t]]

\* _check_banned_user_spam clearing only 'blocked_until' when a lockout expires
CheckBannedUserSpam_KeepsCount(rec, t) ==
    LET created == IF rec.present THEN rec
                   ELSE [present |-> TRUE, message_count |-> 0, first_message |-> t,
                         last_message |-> t, blocked_until |-> None]
    IN  IF created.blocked_until # None /\ t < created.blocked_until
        THEN [ret |-> FALSE, rec |-> created]
        ELSE
        LET expired == IF created.blocked_until # None /\ t >= created.blocked_until
                       THEN [created EXCEPT !.blocked_until = None]
                       ELSE created
            time_diff == t - expired.first_message
            tier == SpamTier(time_diff)
        IN  IF tier # 4 /\ expired.message_count >= SpamLimit(tier)
            THEN [ret |-> FALSE,
                  rec |-> [expired EXCEPT !.blocked_until = t + SpamBlock(tier)]]
            ELSE
            LET rolled == IF tier = 4
                          THEN [expired EXCEPT !.message_count = 0, !.first_message = t]
                          ELSE expired
            IN  [ret |-> TRUE,
                 rec |-> [rolled EXCEPT !.message_count = rolled.message_count + 1,
                                        !.last_message = t]]

\* SecurityManager._check_banned_user_spam
CheckBannedUserSpam(rec, t) ==
    LET created == IF rec.present THEN rec
                   ELSE [present |-> TRUE, message_count |-> 0, first_message |-> t,
                         last_message |-> t, blocked_until |-> None]
    IN  IF created.blocked_until # None /\ t < created.blocked_until
        THEN [ret |-> FALSE, rec |-> created]
        ELSE
        LET expired == IF created.blocked_until # None /\ t >= created.blocked_until
                       THEN [created EXCEPT !.blocked_until = None,
                                            !.message_count = 0,
                                            !.first_message = t]
                       ELSE created
            time_diff == t - expired.first_message
            tier == SpamTier(time_diff)
        IN  IF tier # 4 /\ expired.message_count >= SpamLimit(tier)
            THEN [ret |-> FALSE,
                  rec |-> [expired EXCEPT !.blocked_until = t + SpamBlock(tier)]]
            ELSE
            LET rolled == IF tier = 4
                          THEN [expired EXCEPT !.message_count = 0, !.first_message = t]
                          ELSE expired
            IN  [ret |-> TRUE,
                 rec |-> [rolled EXCEPT !.message_count = rolled.message_count + 1,
                                        !.last_message = t]]

\* check_spam_protection applied to every sender that is not active
CheckSpamProtection_NotActive(rec, user_status, t) ==
    IF user_status # "active" THEN CheckBannedUserSpam(rec, t)
    ELSE [ret |-> TRUE, rec |-> rec]

\* SecurityManager.check_spam_protection
CheckSpamProtection(rec, user_status, t) ==
    IF user_status = "banned" THEN CheckBannedUserSpam(rec, t)
    ELSE [ret |-> TRUE, rec |-> rec]

\* record_banned_user_message that also blocks at the minute limit
RecordBannedUserMessage_Decides(rec, t) ==
    LET created == IF rec.present THEN rec
                   ELSE [present |-> TRUE, message_count |-> 0, first_message |-> t,
                         last_message |-> t, blocked_until |-> None]
        counted == [created EXCEPT !.message_count = created.message_count + 1,
                                   !.last_message = t]
    IN  IF counted.message_count >= MinuteLimit
        THEN [counted EXCEPT !.blocked_until = t + MinuteBlock]
        ELSE counted

\* SecurityManager.record_banned_user_message
RecordBannedUserMessage(rec, t) ==
    LET created == IF rec.present THEN rec
                   ELSE [present |-> TRUE, message_count |-> 0, first_message |-> t,
                         last_message |-> t, blocked_until |-> None]
    IN  [created EXCEPT !.message_count = created.message_count + 1,
                        !.last_message = t]

\* get_spam_protection_stats taking (now - blocked_until).seconds
GetSpamProtectionStats_Reversed(rec, t) ==
    IF ~rec.present
    THEN [message_count |-> 0, is_blocked |-> FALSE, blocked_until |-> None,
          remaining_time |-> 0]
    ELSE LET blocked == rec.blocked_until # None /\ t < rec.blocked_until
         IN  [message_count |-> rec.message_count,
              is_blocked |-> blocked,
              blocked_until |-> rec.blocked_until,
              remaining_time |-> IF blocked THEN (t - rec.blocked_until) % 86400 ELSE 0]

\* SecurityManager.get_spam_protection_stats; (a - b).seconds of a timedelta
GetSpamProtectionStats(rec, t) ==
    IF ~rec.present
    THEN [message_count |-> 0, is_blocked |-> FALSE, blocked_until |-> None,
          remaining_time |-> 0]
    ELSE LET blocked == rec.blocked_until # None /\ t < rec.blocked_until
         IN  [message_count |-> rec.message_count,
              is_blocked |-> blocked,
              blocked_until |-> rec.blocked_until,
              remaining_time |-> IF blocked THEN (rec.blocked_until - t) % 86400 ELSE 0]

\* get_spam_protection_stats creating the record it does not find
SpamStatsOf_Creates(sp, uid, t) ==
    [stats |-> GetSpamProtectionStats(sp[uid], t),
     sp |-> IF sp[uid].present THEN sp
            ELSE [sp EXCEPT ![uid] = [present |-> TRUE, message_count |-> 0,
                                      first_message |-> t, last_message |-> t,
                                      blocked_until |-> None]]]

\* one get_spam_protection_stats call on the dictionary sp: the statistics
\* returned and the dictionary the call leaves
SpamStatsOf(sp, uid, t) ==
    [stats |-> GetSpamProtectionStats(sp[uid], t), sp |-> sp]

(* ----------------------------- middleware ----------------------------- *)
\* user_info.get('status', 'unknown') if user_info else 'unknown'
UserStatus(id) == IF users[id] = "none" THEN "unknown" ELSE users[id]

\* the middleware calling the handler whatever the check returned
SpamProtectionMiddleware_NoDrop(rec, user_status, t) ==
    LET chk == CheckSpamProtection(rec, user_status, t)
    IN  IF user_status = "banned" /\ chk.ret
        THEN [calls |-> <<"check_spam_protection", "record_banned_user_message", "handler">>,
              handled |-> TRUE, rec |-> RecordBannedUserMessage(chk.rec, t)]
        ELSE [calls |-> <<"check_spam_protection", "handler">>,
              handled |-> TRUE, rec |-> chk.rec]

\* SpamProtectionMiddleware.__call__ up to the call of the handler:
\* the calls made in order, whether the handler is reached, the record left
SpamProtectionMiddleware(rec, user_status, t) ==
    LET chk == CheckSpamProtection(rec, user_status, t)
    IN  IF ~chk.ret
        THEN [calls |-> <<"check_spam_protection">>, handled |-> FALSE, rec |-> chk.rec]
        ELSE IF user_status = "banned"
        THEN [calls |-> <<"check_spam_protection", "record_banned_user_message", "handler">>,
              handled |-> TRUE, rec |-> RecordBannedUserMessage(chk.rec, t)]
        ELSE [calls |-> <<"check_spam_protection", "handler">>,
              handled |-> TRUE, rec |-> chk.rec]

(* ------------------------------ handlers ------------------------------ *)
\* what a handler leaves for the sender: its login record, FSM state and
\* stored status, the replies it sends, the guard calls it makes and the
\* branch it took
HandlerResult(la, st, us, replies, calls, outcome) ==
    [la |-> la, fsm |-> st, user |-> us, replies |-> replies, calls |-> calls,
     outcome |-> outcome]

\* cmd_start
CmdStartH(id) ==
    IF users[id] = "none"
    THEN HandlerResult(login_attempts[id], fsm[id], "inactive", <<"welcome">>, <<>>, "created")
    ELSE IF users[id] = "active"
    THEN HandlerResult(login_attempts[id], fsm[id], users[id], <<"hello">>, <<>>, "known")
    ELSE HandlerResult(login_attempts[id], fsm[id], users[id], <<"welcome_back">>, <<>>, "known")

\* cmd_register
CmdRegisterH(id) ==
    IF users[id] = "active"
    THEN HandlerResult(login_attempts[id], fsm[id], users[id],
                       <<"already_authorized">>, <<>>, "already")
    ELSE LET chk == CheckLoginAttempts(login_attempts[id], now)
         IN  IF ~chk.ret
             THEN HandlerResult(chk.rec, fsm[id], users[id],
                                <<"too_many_attempts">>, <<"check_login_attempts">>,
                                "denied")
             ELSE HandlerResult(chk.rec, "waiting_for_phrase", users[id],
                                <<"enter_phrase", "hint">>, <<"check_login_attempts">>,
                                "allowed")

\* UserService.activate_user: the value returned and the status left
ActivateUser(status) ==
    IF status = "none" THEN [ret |-> FALSE, status |-> status]
    ELSE [ret |-> TRUE, status |-> "active"]

\* process_registration_phrase; correct: the text equals the secret phrase
ProcessRegistrationPhraseH(id, correct) ==
    IF ~correct
    THEN HandlerResult(RecordLoginAttempt(login_attempts[id], FALSE, now), fsm[id],
                       users[id], <<"wrong_phrase">>,
                       <<"verify_secret_phrase", "record_login_attempt">>, "failure")
    ELSE LET act == ActivateUser(users[id])
         IN  IF act.ret
             THEN HandlerResult(RecordLoginAttempt(login_attempts[id], TRUE, now), "none",
                                act.status, <<"auth_ok">>,
                                <<"verify_secret_phrase", "record_login_attempt">>,
                                "success")
             ELSE HandlerResult(login_attempts[id], fsm[id], act.status,
                                <<"auth_error">>, <<"verify_secret_phrase">>, "error")

\* unknown_command: the catch-all handler, which only replies
UnknownCommandH(id) ==
    HandlerResult(login_attempts[id], fsm[id], users[id], <<"reply">>, <<>>, "unknown")

(* ------------------------------ dispatch ------------------------------ *)
\* the dispatch keeping one login record for all identities
Dispatch_SharedLogin(id, op, h) ==
    LET status == UserStatus(id)
        mw == SpamProtectionMiddleware(spam_protection[id], status, now)
        banned == status = "banned"
    IN  /\ spam_protection' = [spam_protection EXCEPT ![id] = mw.rec]
        /\ login_attempts' = [u \in Ids |-> IF mw.handled THEN h.la ELSE login_attempts[u]]
        /\ fsm' = [fsm EXCEPT ![id] = IF mw.handled THEN h.fsm ELSE @]
        /\ users' = [users EXCEPT ![id] = IF mw.handled THEN h.user ELSE @]
        /\ last' = [op |-> op, id |-> id, t |-> now, status |-> status,
                    handled |-> mw.handled,
                    calls |-> IF mw.handled THEN mw.calls \o h.calls ELSE mw.calls,
                    replies |-> IF mw.handled THEN h.replies ELSE <<>>,
                    outcome |-> IF mw.handled THEN h.outcome ELSE "dropped",
                    pre_spam |-> spam_protection[id],
                    pre_login |-> login_attempts[id]]
        /\ fails' = [fails EXCEPT ![id] =
                        IF mw.handled /\ h.outcome = "failure" THEN @ + 1
                        ELSE IF mw.handled /\ h.outcome = "success" THEN 0
                        ELSE @]
        /\ seen' = [seen EXCEPT ![id] =
                        IF banned /\ Len(@) < MaxSeen THEN Append(@, now) ELSE @]
        /\ passed' = [passed EXCEPT ![id] =
                        IF banned /\ mw.handled
                        THEN IF spam_protection[id].present
                                /\ mw.rec.first_message = spam_protection[id].first_message
                             THEN @ + 1 ELSE 1
                        ELSE @]
        /\ UNCHANGED <<now, ticks>>

\* One inbound event of identity id: the spam middleware, then (when it lets
\* the event through) the handler whose result is h.
Dispatch(id, op, h) ==
    LET status == UserStatus(id)
        mw == SpamProtectionMiddleware(spam_protection[id], status, now)
        banned == status = "banned"
    IN  /\ spam_protection' = [spam_protection EXCEPT ![id] = mw.rec]
        /\ login_attempts' = [login_attempts EXCEPT ![id] = IF mw.handled THEN h.la ELSE @]
        /\ fsm' = [fsm EXCEPT ![id] = IF mw.handled THEN h.fsm ELSE @]
        /\ users' = [users EXCEPT ![id] = IF mw.handled THEN h.user ELSE @]
        /\ last' = [op |-> op, id |-> id, t |-> now, status |-> status,
                    handled |-> mw.handled,
                    calls |-> IF mw.handled THEN mw.calls \o h.calls ELSE mw.calls,
                    replies |-> IF mw.handled THEN h.replies ELSE <<>>,
                    outcome |-> IF mw.handled THEN h.outcome ELSE "dropped",
                    pre_spam |-> spam_protection[id],
                    pre_login |-> login_attempts[id]]
        /\ fails' = [fails EXCEPT ![id] =
                        IF mw.handled /\ h.outcome = "failure" THEN @ + 1
                        ELSE IF mw.handled /\ h.outcome = "success" THEN 0
                        ELSE @]
        /\ seen' = [seen EXCEPT ![id] =
                        IF banned /\ Len(@) < MaxSeen THEN Append(@, now) ELSE @]
        /\ passed' = [passed EXCEPT ![id] =
                        IF banned /\ mw.handled
                        THEN IF spam_protection[id].present
                                /\ mw.rec.first_message = spam_protection[id].first_message
                             THEN @ + 1 ELSE 1
                        ELSE @]
        /\ UNCHANGED <<now, ticks>>

CmdStart(id) == Dispatch(id, "start", CmdStartH(id)) /\ UNCHANGED aux

CmdRegister(id) == Dispatch(id, "register", CmdRegisterH(id)) /\ UNCHANGED aux

ProcessRegistrationPhrase(id, correct) ==
    /\ fsm[id] = "waiting_for_phrase"
    /\ correct \/ login_attempts[id].count < MaxFails
    /\ Dispatch(id, "phrase", ProcessRegistrationPhraseH(id, correct))
    /\ UNCHANGED aux

UnknownCommand(id) ==
    /\ fsm[id] = "none"
    /\ Dispatch(id, "unknown", UnknownCommandH(id))
    /\ UNCHANGED aux

\* cmd_spamstats behind admin_required: one inbound /spamstats of identity id.
\* The middleware runs first; an admin then gets the statistics of every
\* banned user, read one get_spam_protection_stats call at a time.
CmdSpamstats(id) ==
    LET status == UserStatus(id)
        mw == SpamProtectionMiddleware(spam_protection[id], status, now)
        banned == status = "banned"
        after == [spam_protection EXCEPT ![id] = mw.rec]
        admin == id \in Admins
        listed == {u \in Ids : users[u] = "banned"}
        shown == mw.handled /\ admin /\ listed # {}
    IN  /\ spam_protection' =
              IF shown
              THEN [u \in Ids |-> IF u \in listed THEN SpamStatsOf(after, u, now).sp[u]
                                  ELSE after[u]]
              ELSE after
        /\ last' = [op |-> "spamstats", id |-> id, t |-> now, status |-> status,
                    handled |-> mw.handled,
                    calls |-> IF shown THEN mw.calls \o <<"get_spam_protection_stats">>
                              ELSE mw.calls,
                    replies |-> IF ~mw.handled THEN <<>>
                                ELSE IF ~admin THEN <<"no_admin_rights">>
                                ELSE IF listed = {} THEN <<"no_banned_users">>
                                ELSE <<"spam_statistics">>,
                    outcome |-> IF ~mw.handled THEN "dropped"
                                ELSE IF shown THEN "shown" ELSE "nothing",
                    pre_spam |-> spam_protection[id],
                    pre_login |-> login_attempts[id]]
        /\ seen' = [seen EXCEPT ![id] =
                        IF banned /\ Len(@) < MaxSeen THEN Append(@, now) ELSE @]
        /\ passed' = [passed EXCEPT ![id] =
                        IF banned /\ mw.handled
                        THEN IF spam_protection[id].present
                                /\ mw.rec.first_message = spam_protection[id].first_message
                             THEN @ + 1 ELSE 1
                        ELSE @]
        /\ UNCHANGED <<now, ticks, users, fsm, login_attempts, fails, aux>>

\* the wall clock moves forward by d seconds
Tick(d) ==
    /\ ticks < MaxTicks
    /\ now' = now + d
    /\ ticks' = ticks + 1
    /\ UNCHANGED <<users, fsm, login_attempts, spam_protection, last, fails, seen, passed, aux>>

(* --------------------------- specifications --------------------------- *)
NoEvent ==
    [op |-> "init", id |-> 0, t |-> 0, status |-> "unknown", handled |-> FALSE,
     calls |-> <<>>, replies |-> <<>>, outcome |-> "none",
     pre_spam |-> NoSpam, pre_login |-> NoLogin]

\* no event is in flight
NoTask == [id |-> 0, op |-> "none", pc |-> "idle", overlapped |-> FALSE]

InitTasks == tasks = [k \in 1..MaxTasks |-> NoTask]

\* no broadcast was started
NoBroadcast ==
    [pc |-> "idle", total_users |-> 0, i |-> 0, successful |-> 0, failed |-> 0,
     blocked_by_user |-> 0, attempts |-> <<>>, report_sent |-> FALSE]

InitBroadcast == bc = NoBroadcast

\* no events.json and no users.json, nothing cached, no service called
InitStores ==
    /\ event_store = NoFile
    /\ user_store = NoFile
    /\ io = NoIo

\* no event of a banned user has reached a handler
InitThrough == through = [id \in Ids |-> <<>>]

\* an empty library, and no call of utils/callback_utils.py made
InitCallback ==
    /\ books = <<>>
    /\ md5 = [t \in Titles |-> Hex16(48)]
    /\ cb = NoCall

\* the state of everything but the guards when the bot starts
InitAux == InitTasks /\ InitCallback /\ InitThrough /\ InitStores /\ InitBroadcast

\* the state after SecurityManager.__init__ and Dispatcher(storage=MemoryStorage())
InitGuardState ==
    /\ now = 0
    /\ ticks = 0
    /\ fsm = [id \in Ids |-> "none"]
    /\ login_attempts = [id \in Ids |-> NoLogin]
    /\ spam_protection = [id \in Ids |-> NoSpam]
    /\ last = NoEvent
    /\ fails = [id \in Ids |-> 0]
    /\ seen = [id \in Ids |-> <<>>]
    /\ passed = [id \in Ids |-> 0]

\* the state when the bot starts, with an empty library
InitGuards == InitGuardState /\ InitAux

\* clock steps of the registration runs
LoginDeltas == {1, lockout_duration - 1, lockout_duration}

\* clock steps of the banned-user runs
SpamDeltas == {10, 50, MinuteBlock, HourWindow, DayWindow}

\* registration: identity 1 is unknown or inactive, identity 2 is an active member
InitLogin ==
    /\ InitGuards
    /\ users \in {u \in [Ids -> {"none", "inactive", "active"}] :
                    u[1] # "active" /\ u[2] = "active"}

NextLogin ==
    \/ \E d \in LoginDeltas : Tick(d)
    \/ \E id \in Ids : CmdStart(id)
    \/ \E id \in Ids : CmdRegister(id)
    \/ \E id \in Ids, correct \in BOOLEAN : ProcessRegistrationPhrase(id, correct)

SpecLogin == InitLogin /\ [][NextLogin]_vars

\* spam guard: identity 1 is banned, identity 2 is an active member
InitSpam ==
    /\ InitGuards
    /\ users = [id \in Ids |-> IF id = 1 THEN "banned" ELSE "active"]

NextSpam ==
    \/ \E d \in SpamDeltas : Tick(d)
    \/ \E id \in Ids : UnknownCommand(id)

SpecSpam == InitSpam /\ [][NextSpam]_vars

\* clock steps of the runs that use both guards
Deltas == {lockout_duration}

\* both guards: identity 1 is a banned user who keeps sending messages,
\* identity 2 (the administrator) is unknown or inactive and registers
Init ==
    /\ InitGuards
    /\ users \in {u \in [Ids -> Statuses] : u[1] = "banned" /\ u[2] \in {"none", "inactive"}}

Next ==
    \/ \E d \in Deltas : Tick(d)
    \/ UnknownCommand(1)
    \/ CmdRegister(2)
    \/ \E correct \in BOOLEAN : ProcessRegistrationPhrase(2, correct)
    \/ CmdSpamstats(2)

Spec == Init /\ [][Next]_vars

\* runs in which the clock keeps advancing while the banned identity 1 keeps
\* sending messages and identity 2 keeps asking to register, never entering
\* the right phrase
InitLive ==
    /\ InitGuards
    /\ users = [id \in Ids |-> IF id = 1 THEN "banned" ELSE "inactive"]

NextLive ==
    \/ Tick(lockout_duration)
    \/ UnknownCommand(1)
    \/ CmdRegister(2)
    \/ ProcessRegistrationPhrase(2, FALSE)

FairLive ==
    /\ WF_vars(Tick(lockout_duration))
    /\ WF_vars(UnknownCommand(1))
    /\ WF_vars(CmdRegister(2))

SpecLive == InitLive /\ [][NextLive]_vars /\ FairLive

(* --------------------------- events in flight -------------------------- *)
\* The dispatcher handles every update in a task of its own, so several
\* events of one identity can be in flight.  A task runs without interruption
\* from one await that suspends to the next: the middleware and the handler up
\* to its first message.answer are one step, what follows the answer another.
Pending(id) == {k \in 1..MaxTasks : tasks[k].id = id /\ tasks[k].pc \notin {"idle", "done"}}

\* the task record of an event of identity id that is waiting at the await pc
Waiting(k, id, op, pc) ==
    [tasks EXCEPT ![k] = [id |-> id, op |-> op, pc |-> pc,
                          overlapped |-> Pending(id) # {}]]

\* SpamProtectionMiddleware.__call__, lines 52-66, in the task of an event of
\* identity id: no await separates the check from the record
MiddlewareStep(id, mw) ==
    LET banned == UserStatus(id) = "banned"
    IN  /\ spam_protection' = [spam_protection EXCEPT ![id] = mw.rec]
        /\ seen' = [seen EXCEPT ![id] =
                        IF banned /\ Len(@) < MaxSeen THEN Append(@, now) ELSE @]
        /\ passed' = [passed EXCEPT ![id] =
                        IF banned /\ mw.handled
                        THEN IF spam_protection[id].present
                                /\ mw.rec.first_message = spam_protection[id].first_message
                             THEN @ + 1 ELSE 1
                        ELSE @]

\* an event that unknown_command handles arrives: middleware, then the handler
\* up to its reply
StartMessage(k, id) ==
    LET mw == SpamProtectionMiddleware(spam_protection[id], UserStatus(id), now)
    IN  /\ tasks[k].pc \in {"idle", "done"}
        /\ fsm[id] = "none"
        /\ Len(seen[id]) < MaxSeen
        /\ MiddlewareStep(id, mw)
        /\ tasks' = IF mw.handled THEN Waiting(k, id, "unknown", "reply") ELSE tasks
        /\ UNCHANGED <<now, ticks, users, fsm, login_attempts, last, fails, not_tasks>>

\* a text arrives while the FSM waits for the phrase: middleware, then
\* process_registration_phrase up to its first message.answer (lines 120-127
\* for a wrong phrase, lines 120-135 for the right one)
StartPhrase(k, id, correct) ==
    LET mw == SpamProtectionMiddleware(spam_protection[id], UserStatus(id), now)
        act == ActivateUser(users[id])
    IN  /\ tasks[k].pc \in {"idle", "done"}
        /\ fsm[id] = "waiting_for_phrase"
        /\ correct \/ login_attempts[id].count + Cardinality(Pending(id)) < MaxFails
        /\ MiddlewareStep(id, mw)
        /\ IF ~mw.handled
           THEN UNCHANGED <<tasks, users, login_attempts, fails>>
           ELSE IF ~correct
           THEN /\ tasks' = Waiting(k, id, "phrase", "wrong_answer")
                /\ UNCHANGED <<users, login_attempts, fails>>
           ELSE IF act.ret
           THEN /\ users' = [users EXCEPT ![id] = act.status]
                /\ login_attempts' = [login_attempts EXCEPT ![id] =
                                         RecordLoginAttempt(@, TRUE, now)]
                /\ fails' = [fails EXCEPT ![id] = 0]
                /\ tasks' = Waiting(k, id, "phrase", "ok_answer")
           ELSE /\ tasks' = Waiting(k, id, "phrase", "error_answer")
                /\ UNCHANGED <<users, login_attempts, fails>>
        /\ UNCHANGED <<now, ticks, fsm, last, not_tasks>>

\* the login dictionary lost-update variant: the write of a task goes missing
\* when another event of the same identity is in flight
RecordAfterAnswer_Lost(k) ==
    IF Pending(tasks[k].id) # {k}
    THEN login_attempts
    ELSE [login_attempts EXCEPT ![tasks[k].id] = RecordLoginAttempt(@, FALSE, now)]

\* process_registration_phrase line 128, after the answer was sent: the
\* login dictionary record_login_attempt(user_id, False) leaves
RecordAfterAnswer(k) ==
    [login_attempts EXCEPT ![tasks[k].id] = RecordLoginAttempt(@, FALSE, now)]

\* the task k resumes after its await and runs to its end
Resume(k) ==
    LET id == tasks[k].id
    IN  /\ tasks[k].pc \notin {"idle", "done"}
        /\ tasks' = [tasks EXCEPT ![k].pc = "done"]
        /\ IF tasks[k].pc = "wrong_answer"
           THEN /\ login_attempts' = RecordAfterAnswer(k)
                /\ fails' = [fails EXCEPT ![id] = @ + 1]
                /\ UNCHANGED fsm
           ELSE IF tasks[k].pc = "ok_answer"
           THEN /\ fsm' = [fsm EXCEPT ![id] = "none"]
                /\ UNCHANGED <<login_attempts, fails>>
           ELSE UNCHANGED <<login_attempts, fails, fsm>>
        /\ UNCHANGED <<now, ticks, users, spam_protection, last, seen, passed, not_tasks>>

\* events in flight: identity 1 is banned and sends messages, identity 2 is
\* inactive and registers
InitTasksRun ==
    /\ InitGuards
    /\ users = [id \in Ids |-> IF id = 1 THEN "banned" ELSE "inactive"]

NextTasks ==
    \/ CmdRegister(2)
    \/ \E k \in 1..MaxTasks : StartMessage(k, 1)
    \/ \E k \in 1..MaxTasks, correct \in BOOLEAN : StartPhrase(k, 2, correct)
    \/ \E k \in 1..MaxTasks : Resume(k)

SpecTasks == InitTasksRun /\ [][NextTasks]_vars

(* ----------------------------- ban and unban --------------------------- *)
\* cmd_ban and cmd_unban: one inbound /ban target or /unban target of identity
\* id; status is what ban_user or unban_user stores for a user that exists
CmdSetStatus(id, target, op, status) ==
    LET mw == SpamProtectionMiddleware(spam_protection[id], UserStatus(id), now)
        admin == id \in Admins
        done == mw.handled /\ admin /\ users[target] # "none"
    IN  /\ MiddlewareStep(id, mw)
        /\ users' = IF done THEN [users EXCEPT ![target] = status] ELSE users
        /\ last' = [op |-> op, id |-> id, t |-> now, status |-> UserStatus(id),
                    handled |-> mw.handled,
                    calls |-> mw.calls,
                    replies |-> IF ~mw.handled THEN <<>>
                                ELSE IF ~admin THEN <<"no_admin_rights">>
                                ELSE IF done THEN <<"done">> ELSE <<"error">>,
                    outcome |-> IF ~mw.handled THEN "dropped"
                                ELSE IF done THEN "done" ELSE "nothing",
                    pre_spam |-> spam_protection[id],
                    pre_login |-> login_attempts[id]]
        /\ UNCHANGED <<now, ticks, fsm, login_attempts, fails, aux>>

CmdBan(id, target) == CmdSetStatus(id, target, "ban", "banned")

CmdUnban(id, target) == CmdSetStatus(id, target, "unban", "active")

\* identity 1 is banned, identity 2 is the administrator
InitBan ==
    /\ InitGuards
    /\ users = [id \in Ids |-> IF id = 1 THEN "banned" ELSE "active"]

NextBan ==
    \/ Tick(MinuteBlock)
    \/ CmdStart(1)
    \/ CmdRegister(1)
    \/ \E correct \in BOOLEAN : ProcessRegistrationPhrase(1, correct)
    \/ CmdBan(2, 1)
    \/ CmdUnban(2, 1)

SpecBan == InitBan /\ [][NextBan]_vars

(* ------------------------- banned users' messages ---------------------- *)
\* the last n elements of the sequence q
LastOf(q, n) == IF Len(q) <= n THEN q ELSE SubSeq(q, Len(q) - n + 1, Len(q))

\* one message of identity id that unknown_command handles, with the time of
\* the message kept when the sender is banned and the handler is reached
BannedMessage(id) ==
    /\ fsm[id] = "none"
    /\ Dispatch(id, "unknown", UnknownCommandH(id))
    /\ through' = [through EXCEPT ![id] =
                      IF last'.status = "banned" /\ last'.handled
                      THEN LastOf(Append(@, now), MaxThrough) ELSE @]
    /\ UNCHANGED not_limits

\* clock steps of the runs of a banned user
LimitDeltas == {10, MinuteWindow}

NextLimits ==
    \/ \E d \in LimitDeltas : Tick(d)
    \/ BannedMessage(1)

\* identity 1 is banned and keeps sending messages
SpecLimits == InitSpam /\ [][NextLimits]_vars

(* ------------------------------- services ------------------------------ *)
\* the titles given to create_event
EventTitles == {"meeting", "reading"}

\* a call of create_event
CallCreateEvent(title, ok) ==
    LET r == CreateEvent(event_store, title, now, ok)
    IN  /\ Cardinality(DOMAIN r.before) < MaxEvents
        /\ event_store' = r.st
        /\ io' = [fn |-> "create_event", arg |-> title, ret |-> r.ret, before |-> r.before]
        /\ UNCHANGED <<now, ticks, user_store, not_store>>

\* a call of delete_event
CallDeleteEvent(event_id, ok) ==
    LET r == DeleteEvent(event_store, event_id, now, ok)
    IN  /\ event_store' = r.st
        /\ io' = [fn |-> "delete_event", arg |-> event_id, ret |-> r.ret, before |-> r.before]
        /\ UNCHANGED <<now, ticks, user_store, not_store>>

\* clock steps of the runs of the services: the cache entry expires
StoreDeltas == {cache_ttl + 1}

\* the event service, started without events.json
InitEvents ==
    /\ InitGuards
    /\ users = [id \in Ids |-> "none"]

NextEvents ==
    \/ \E d \in StoreDeltas : Tick(d)
    \/ \E title \in EventTitles, ok \in BOOLEAN : CallCreateEvent(title, ok)
    \/ \E event_id \in 1..MaxEvents, ok \in BOOLEAN : CallDeleteEvent(event_id, ok)

SpecEvents == InitEvents /\ [][NextEvents]_vars

\* a call of ban_user, unban_user or activate_user
CallUserService(fn, user_id, ok) ==
    LET r == IF fn = "ban_user" THEN BanUser(user_store, user_id, now, ok)
             ELSE IF fn = "unban_user" THEN UnbanUser(user_store, user_id, now, ok)
             ELSE ActivateStoredUser(user_store, user_id, now, ok)
    IN  /\ user_store' = r.st
        /\ io' = [fn |-> fn, arg |-> user_id, ret |-> r.ret, before |-> r.before]
        /\ UNCHANGED <<now, ticks, event_store, not_store>>

\* a call of get_user
CallGetUser(user_id) ==
    LET r == GetUser(user_store, user_id, now)
    IN  /\ user_store' = r.st
        /\ io' = [fn |-> "get_user", arg |-> user_id, ret |-> r.ret,
                  before |-> LoadJson(user_store, now).data]
        /\ UNCHANGED <<now, ticks, event_store, not_store>>

\* the user service, started with a users.json that holds identity 1
InitUsers ==
    /\ InitGuardState
    /\ InitTasks
    /\ InitCallback
    /\ InitThrough
    /\ InitBroadcast
    /\ users = [id \in Ids |-> "none"]
    /\ event_store = NoFile
    /\ io = NoIo
    /\ \E status \in {"inactive", "active", "banned"} :
          user_store = [NoFile EXCEPT !.exists = TRUE,
                                     !.file = With(EmptyDict, 1, UserData(status, None))]

NextUsers ==
    \/ \E d \in StoreDeltas : Tick(d)
    \/ \E fn \in {"ban_user", "unban_user", "activate_user"}, user_id \in Ids, ok \in BOOLEAN :
          CallUserService(fn, user_id, ok)
    \/ \E user_id \in Ids : CallGetUser(user_id)

SpecUsers == InitUsers /\ [][NextUsers]_vars

(* ------------------------------- broadcast ----------------------------- *)
\* what bot.send_message does: it returns, or raises an error whose text
\* does or does not contain "blocked"
SendOutcomes == {"ok", "error", "blocked"}

\* the sizes of the users dictionary given to send_broadcast_async
Totals == {1, ProgressEvery, MaxUsers}

\* send_broadcast_async, lines 112-119: the task starts with total users
StartBroadcast(total) ==
    /\ bc.pc = "idle"
    /\ bc' = [NoBroadcast EXCEPT !.pc = "loop", !.total_users = total,
                                 !.attempts = [u \in 1..total |-> 0]]
    /\ UNCHANGED not_broadcast

\* the counters after the except clause, lines 144-150, ran for an error
Excepted(b, outcome) ==
    [b EXCEPT !.failed = @ + 1,
              !.blocked_by_user = IF outcome = "blocked" THEN @ + 1 ELSE @]

\* one pass of the loop, lines 122-156, for the next user: sent is what
\* send_message to the user does, progress what the send_message of the
\* progress report does
Deliver(sent, progress) ==
    LET i == bc.i + 1
        tried == [bc EXCEPT !.i = i, !.attempts[i] = @ + 1]
        counted == [tried EXCEPT !.successful = @ + 1]
        reports == i % ProgressEvery = 0
        after == IF sent # "ok" THEN Excepted(tried, sent)
                 ELSE IF reports /\ progress # "ok" THEN Excepted(counted, progress)
                 ELSE counted
    IN  /\ bc.pc = "loop"
        /\ bc.i < bc.total_users
        /\ (sent # "ok" \/ ~reports) => progress = "ok"
        /\ bc' = after
        /\ UNCHANGED not_broadcast

\* the final report, lines 158-190; sent: whether it reached the administrator
Report(sent) ==
    /\ bc.pc = "loop"
    /\ bc.i = bc.total_users
    /\ bc' = [bc EXCEPT !.pc = "done", !.report_sent = sent = "ok"]
    /\ UNCHANGED not_broadcast

InitBroadcastRun ==
    /\ InitGuards
    /\ users = [id \in Ids |-> "none"]

NextBroadcast ==
    \/ \E total \in Totals : StartBroadcast(total)
    \/ \E sent \in SendOutcomes, progress \in SendOutcomes : Deliver(sent, progress)
    \/ \E sent \in SendOutcomes : Report(sent)

SpecBroadcast == InitBroadcastRun /\ [][NextBroadcast]_vars

(* ----------------------------- callback data --------------------------- *)
\* a call of create_callback_data; one call is made in a run
CallCreateCallbackData(prefix, action, data) ==
    /\ cb = NoCall
    /\ cb' = [fn |-> "create_callback_data", args |-> <<prefix, action, data>>,
              ret |-> CreateCallbackData(prefix, action, data)]
    /\ UNCHANGED <<books, md5, not_callback>>

\* a call of safe_encode_title
CallSafeEncodeTitle(title) ==
    /\ cb = NoCall
    /\ cb' = [fn |-> "safe_encode_title", args |-> <<title>>, ret |-> SafeEncodeTitle(title)]
    /\ UNCHANGED <<books, md5, not_callback>>

\* a call of safe_decode_title
CallSafeDecodeTitle(encoded_title) ==
    /\ cb = NoCall
    /\ cb' = [fn |-> "safe_decode_title", args |-> <<encoded_title>>,
              ret |-> SafeDecodeTitle(encoded_title)]
    /\ UNCHANGED <<books, md5, not_callback>>

\* the sequences of distinct titles: the keys of a books.json, in order
Libraries ==
    {ks \in UNION {[1..n -> Titles] : n \in 0..2} :
        \A i, j \in 1..Len(ks) : i # j => ks[i] # ks[j]}

\* the strings given to safe_decode_title: the empty one, digests, titles
DecodeInputs == {<<>>} \cup Digests \cup Titles

\* calls of utils/callback_utils.py with some books.json and some digests
InitCalls ==
    /\ InitGuardState
    /\ InitTasks
    /\ InitThrough
    /\ InitStores
    /\ InitBroadcast
    /\ users = [id \in Ids |-> "none"]
    /\ books \in Libraries
    /\ md5 \in [Titles -> Digests]
    /\ cb = NoCall

NextCalls ==
    \/ \E prefix \in {Book, User}, action \in {Show, LongAction}, data \in DataStrings :
          /\ prefix = Book => data \in Titles
          /\ CallCreateCallbackData(prefix, action, data)
    \/ \E title \in Titles \cup {<<>>} : CallSafeEncodeTitle(title)
    \/ \E encoded_title \in DecodeInputs : CallSafeDecodeTitle(encoded_title)

SpecCalls == InitCalls /\ [][NextCalls]_vars

TypeOK ==
    /\ now \in Nat
    /\ users \in [Ids -> Statuses]
    /\ \A id \in Ids : login_attempts[id].count \in Nat /\ spam_protection[id].message_count \in Nat

(* ------------------------- login guard claims ------------------------- *)
\* the login lockout of the record is running at time t
LoginLocked(rec, t) == rec.locked_until # None /\ t < rec.locked_until

\* the last event was a /register that reached check_login_attempts
LoginChecked == last.op = "register" /\ last.outcome \in {"allowed", "denied"}

\* C1: a login check made when lockedUntil is set and now >= lockedUntil
\* clears the lockout, resets count to 0 and returns true.
C1_ExpiredLockoutAllows ==
    (LoginChecked /\ last.pre_login.locked_until # None
                  /\ last.t >= last.pre_login.locked_until)
    => /\ last.outcome = "allowed"
       /\ login_attempts[last.id].count = 0
       /\ login_attempts[last.id].locked_until = None

\* C2: with 3 or more failures since the last success and no running lockout
\* the login check denies and sets lockedUntil = now + 900; during a running
\* lockout it denies; with fewer than 3 failures and no running lockout it
\* allows and sets no lockout.
C2_LoginLockoutTrigger ==
    LoginChecked =>
        LET pre == last.pre_login
            post == login_attempts[last.id]
            running == LoginLocked(pre, last.t)
        IN  /\ (fails[last.id] >= 3 /\ ~running)
                => (last.outcome = "denied"
                    /\ post.locked_until = last.t + 900
                    /\ \A t \in last.t .. now :
                          t < post.locked_until => ~CheckLoginAttempts(post, t).ret)
            /\ running => (last.outcome = "denied" /\ LoginLocked(post, last.t))
            /\ (fails[last.id] < 3 /\ ~running)
                => (last.outcome = "allowed" /\ post.locked_until = None)

\* C2 witness: a check one second before the end of a lockout is denied
C2_Witness ==
    /\ LoginChecked
    /\ last.outcome = "denied"
    /\ last.pre_login.locked_until # None
    /\ last.t = last.pre_login.locked_until - 1
    /\ fails[last.id] = 3

\* C3: a secret phrase is verified only when the login check allows the
\* attempt, so no identity has more than 3 consecutive failed verifications.
C3_VerificationsGated ==
    /\ (last.op = "phrase" /\ last.handled)
          => CheckLoginAttempts(last.pre_login, last.t).ret
    /\ \A id \in Ids : fails[id] <= max_attempts

\* C4: recording a successful attempt sets count to 0 and removes lockedUntil
\* from any prior state, and the check that follows returns true.
C4_SuccessResets ==
    (last.op = "phrase" /\ last.outcome = "success")
    => /\ login_attempts[last.id].present
       /\ login_attempts[last.id].count = 0
       /\ login_attempts[last.id].locked_until = None
       /\ CheckLoginAttempts(login_attempts[last.id], now).ret
       /\ CheckLoginAttempts(login_attempts[last.id], now).rec.locked_until = None

\* C4 witness: a success recorded while a lockout was running
C4_Witness ==
    /\ last.op = "phrase"
    /\ last.outcome = "success"
    /\ LoginLocked(last.pre_login, last.t)
    /\ last.pre_login.count >= 3

(* ------------------------- spam guard claims -------------------------- *)
\* the last event came from an identity whose stored status was "banned"
BannedEvent == last.op # "init" /\ last.status = "banned"

\* seconds between windowStart and the last event, as the check saw them
Elapsed == last.t - last.pre_spam.first_message

C6_CountsEachEventOnce ==
    \A id \in Ids :
        users[id] = "banned"
        => GetSpamProtectionStats(spam_protection[id], now).message_count = passed[id]

\* C7: for an event of a banned sender the spam check is called first; when it
\* returns false the handler is not invoked and nothing is sent; when it
\* returns true recordMessage is called and then the handler.
C7_BannedDispatch ==
    BannedEvent =>
        LET chk == CheckSpamProtection(last.pre_spam, "banned", last.t)
        IN  /\ last.calls[1] = "check_spam_protection"
            /\ ~chk.ret => /\ ~last.handled
                           /\ last.calls = <<"check_spam_protection">>
                           /\ last.replies = <<>>
            /\ chk.ret => /\ last.handled
                          /\ Len(last.calls) >= 3
                          /\ last.calls[2] = "record_banned_user_message"
                          /\ last.calls[3] = "handler"
                          /\ last.replies # <<>>

\* C7 witness: an event of a banned sender that was dropped
C7_Witness ==
    /\ BannedEvent
    /\ ~last.handled
    /\ last.pre_spam.message_count >= 3

C9_TierSelection ==
    (BannedEvent /\ last.pre_spam.present /\ last.pre_spam.blocked_until = None)
    => LET pre == last.pre_spam
           post == spam_protection[last.id]
       IN  /\ (60 < Elapsed /\ Elapsed <= 3600)
               => /\ (post.blocked_until # None) <=> (pre.message_count >= 10)
                  /\ post.blocked_until # None => post.blocked_until = last.t + 3600
           /\ (3600 < Elapsed /\ Elapsed <= 86400)
               => /\ (post.blocked_until # None) <=> (pre.message_count >= 30)
                  /\ post.blocked_until # None => post.blocked_until = last.t + 21600

\* C9 witness: a day-tier lockout
C9_Witness ==
    /\ BannedEvent
    /\ last.pre_spam.present
    /\ last.pre_spam.blocked_until = None
    /\ 3600 < Elapsed /\ Elapsed <= 86400
    /\ spam_protection[last.id].blocked_until = last.t + 21600

\* C10: an event arriving more than 86400 s after windowStart with no lockout
\* running leaves count = 1, windowStart = now and no lockout.
C10_Rollover ==
    (BannedEvent /\ last.pre_spam.present /\ Elapsed > 86400
        /\ ~(last.pre_spam.blocked_until # None /\ last.t < last.pre_spam.blocked_until))
    => /\ spam_protection[last.id].message_count = 1
       /\ spam_protection[last.id].first_message = last.t
       /\ spam_protection[last.id].blocked_until = None

(* ---------------------- expiry, frame and fresh claims ----------------- *)
\* the spam lockout of the record is running at time t
SpamLocked(rec, t) == rec.blocked_until # None /\ t < rec.blocked_until

C13_CheckDoesNotCount ==
    /\ BannedEvent =>
          LET chk == CheckSpamProtection(last.pre_spam, "banned", last.t)
          IN  /\ ~last.pre_spam.present => (chk.ret /\ chk.rec.message_count = 0)
              /\ chk.rec.message_count <= last.pre_spam.message_count
    /\ LoginChecked =>
          LET chk == CheckLoginAttempts(last.pre_login, last.t)
          IN  /\ ~last.pre_login.present => (chk.ret /\ chk.rec.count = 0)
              /\ chk.rec.count <= last.pre_login.count

\* C14: the check of an identity the guard has no record of returns true,
\* under the login policy and under the spam policy, at any time.
C14_FreshAllowed ==
    /\ (BannedEvent /\ ~last.pre_spam.present) => last.handled
    /\ (LoginChecked /\ ~last.pre_login.present) => last.outcome = "allowed"

\* C14 witness: both guards met their identity for the first time after the
\* clock had moved, and let it through
C14_Witness ==
    /\ LoginChecked
    /\ ~last.pre_login.present
    /\ last.outcome = "allowed"
    /\ last.t > 0
    /\ Len(seen[1]) = 1 /\ seen[1][1] > 0 /\ passed[1] = 1

\* C15: a check made while a lockout is running returns false and leaves the
\* record (count, windowStart, lastEventTime, lockedUntil) as it was, for
\* both policies.
C15_DeniedCheckNoEffect ==
    /\ (BannedEvent /\ SpamLocked(last.pre_spam, last.t))
          => (~last.handled /\ spam_protection[last.id] = last.pre_spam)
    /\ (LoginChecked /\ LoginLocked(last.pre_login, last.t))
          => (last.outcome = "denied" /\ login_attempts[last.id] = last.pre_login)

\* C15 witness: a spam check repeated 900 s into a one-hour lockout
C15_Witness ==
    /\ BannedEvent
    /\ SpamLocked(last.pre_spam, last.t)
    /\ last.pre_spam.blocked_until - last.t = 2700
    /\ spam_protection[last.id].blocked_until = last.pre_spam.blocked_until

(* -------------------- liveness, statistics, independence -------------- *)
\* the clock can still reach time t in this run
ClockReaches(t) == t <= now + (MaxTicks - ticks) * lockout_duration

\* C12: an identity in a lockout the clock can outlast, and that keeps being
\* checked, is eventually let through by a check, for the login policy and for
\* the spam policy, with no successful attempt recorded.
C12_NoTerminalState ==
    /\ (LoginLocked(login_attempts[2], now) /\ ClockReaches(login_attempts[2].locked_until))
          ~> (LoginChecked /\ last.id = 2 /\ last.outcome = "allowed")
    /\ (SpamLocked(spam_protection[1], now) /\ ClockReaches(spam_protection[1].blocked_until))
          ~> (BannedEvent /\ last.id = 1 /\ last.handled)

\* the spam half of C12
C12_SpamHalf ==
    (SpamLocked(spam_protection[1], now) /\ ClockReaches(spam_protection[1].blocked_until))
        ~> (BannedEvent /\ last.id = 1 /\ last.handled)

\* C16: recording a failed attempt adds exactly 1 to count and leaves
\* lockedUntil as it was; only a check sets a login lockout, so right after
\* the third failure the record has count 3 and no lockedUntil.
C16_RecordDoesNotDecide ==
    LET pre == last.pre_login
        post == login_attempts[last.id]
    IN  /\ (last.op = "phrase" /\ last.outcome = "failure")
              => /\ post.count = pre.count + 1
                 /\ post.locked_until = pre.locked_until
                 /\ fails[last.id] = 3 => (post.count = 3 /\ post.locked_until = None)
        /\ (last.op # "init" /\ ~LoginChecked)
              => post.locked_until \in {pre.locked_until, None}

\* C16 witness: the state right after the third failure
C16_Witness ==
    /\ last.op = "phrase"
    /\ last.outcome = "failure"
    /\ fails[last.id] = 3
    /\ login_attempts[last.id].count = 3
    /\ login_attempts[last.id].locked_until = None

\* C17: a /spamstats leaves every stored field of every record unchanged and
\* creates no record; only the middleware may touch the spam record of the
\* sender itself, when the sender is banned.
C17_StatsReadOnly ==
    [][(last'.op = "spamstats")
        => /\ login_attempts' = login_attempts
           /\ \A u \in Ids : (u # last'.id \/ last'.status # "banned")
                                => spam_protection'[u] = spam_protection[u]]_vars

\* C17 witness: statistics shown for a banned identity that has no record
C17_Witness ==
    /\ last.op = "spamstats"
    /\ last.outcome = "shown"
    /\ users[1] = "banned"
    /\ ~spam_protection[1].present

\* C18: at every time, isBlocked is true exactly when lockedUntil is set and
\* now < lockedUntil, remainingSeconds is lockedUntil - now when blocked and 0
\* otherwise, count is the stored count, and an identity without a record
\* yields 0, false, 0.
C18_StatsValues ==
    \A u \in Ids :
        LET rec == spam_protection[u]
            st == SpamStatsOf(spam_protection, u, now).stats
            blocked == rec.blocked_until # None /\ now < rec.blocked_until
        IN  /\ st.is_blocked <=> blocked
            /\ st.remaining_time = IF blocked THEN rec.blocked_until - now ELSE 0
            /\ st.message_count = IF rec.present THEN rec.message_count ELSE 0
            /\ ~rec.present => (~st.is_blocked /\ st.remaining_time = 0)

\* C18 witness: statistics shown 900 s into a one-hour lockout
C18_Witness ==
    /\ last.op = "spamstats"
    /\ last.outcome = "shown"
    /\ last.t = now
    /\ SpamStatsOf(spam_protection, 1, now).stats.is_blocked
    /\ SpamStatsOf(spam_protection, 1, now).stats.remaining_time = 2700

\* C19: an event of one identity leaves the login record and the spam record
\* of every other identity unchanged; an event that only passes the spam guard
\* leaves the login records unchanged and an event of a sender that is not
\* banned leaves the spam records unchanged.
C19_Independent ==
    [][/\ \A b \in Ids : b # last'.id
              => /\ login_attempts'[b] = login_attempts[b]
                 /\ spam_protection'[b] = spam_protection[b]
       /\ (last'.op \in {"unknown", "spamstats", "start"} \/ ~last'.handled)
              => login_attempts' = login_attempts
       /\ last'.status # "banned" => spam_protection' = spam_protection]_vars

\* C19 witness: identity 2 is denied by the login guard while identity 1 is
\* locked out by the spam guard
C19_Witness ==
    /\ LoginChecked
    /\ last.id = 2
    /\ last.outcome = "denied"
    /\ SpamLocked(spam_protection[1], now)
    /\ ~spam_protection[2].present
    /\ ~login_attempts[1].present

\* C20: for an event whose sender is not banned the spam check returns true,
\* the handler runs and the sender's spam record is neither created nor
\* changed.
C20_OnlyBanned ==
    (last.op # "init" /\ last.status # "banned")
    => /\ last.handled
       /\ last.calls[1] = "check_spam_protection"
       /\ last.calls[2] # "record_banned_user_message"
       /\ spam_protection[last.id] = last.pre_spam
       /\ ~spam_protection[last.id].present

\* C20 witness: an event of an inactive user
C20_Witness ==
    /\ last.op # "init"
    /\ last.status = "inactive"
    /\ last.handled

(* ------------------------- events in flight claims -------------------- *)
\* C21: with several events of one identity in flight no update of a guard
\* is lost: the login count is the number of failures recorded since the last
\* success, and the spam count is at least the number of messages recorded in
\* the current window.
C21_NoLostUpdate ==
    \A id \in Ids :
        /\ login_attempts[id].count = fails[id]
        /\ spam_protection[id].message_count >= passed[id]

\* C21 witness: two wrong phrases of identity 2 were in flight together and
\* both have been recorded
C21_Witness ==
    /\ \A k \in 1..MaxTasks :
          /\ tasks[k].id = 2
          /\ tasks[k].op = "phrase"
          /\ tasks[k].pc = "done"
          /\ tasks[k].overlapped
    /\ fails[2] >= 2
    /\ login_attempts[2].count = fails[2]

(* -------------------------- record invariants ------------------------- *)
\* C22: a lockedUntil that an event sets is strictly greater than the time at
\* which it is set: 900 s later for the login guard, 5 min, 1 h or 6 h later
\* for the spam guard.
C22_LockoutHasDuration ==
    LET login == login_attempts[last.id]
        spam == spam_protection[last.id]
    IN  last.op # "init"
        => /\ (login.locked_until # None /\ login.locked_until # last.pre_login.locked_until)
                 => /\ login.locked_until > last.t
                    /\ login.locked_until - last.t = lockout_duration
           /\ (spam.blocked_until # None /\ spam.blocked_until # last.pre_spam.blocked_until)
                 => /\ spam.blocked_until > last.t
                    /\ spam.blocked_until - last.t \in {MinuteBlock, HourBlock, DayBlock}

\* C22 witness: the last event set a login lockout while a spam lockout set
\* earlier is stored
C22_Witness ==
    /\ LoginChecked
    /\ last.pre_login.locked_until = None
    /\ login_attempts[last.id].locked_until = last.t + lockout_duration
    /\ \E id \in Ids : spam_protection[id].blocked_until # None

\* C23: a login record or a spam record that exists, exists in every later
\* state.
C23_NeverEvicted ==
    [][\A id \in Ids :
          /\ login_attempts[id].present => login_attempts'[id].present
          /\ spam_protection[id].present => spam_protection'[id].present]_vars

\* C23 witness: the records are there after a success and after a spam
\* lockout that has expired
C23_Witness ==
    /\ last.op = "phrase"
    /\ last.outcome = "success"
    /\ login_attempts[last.id].present
    /\ \E id \in Ids :
          /\ spam_protection[id].present
          /\ spam_protection[id].blocked_until = None
          /\ spam_protection[id].first_message > 0

(* --------------------------- callback data claims ---------------------- *)
\* the string s starts with the string p
StartsWith(s, p) == Len(s) >= Len(p) /\ SubSeq(s, 1, Len(p)) = p

\* C24: create_callback_data(prefix, action, data) returns prefix:action:data'
\* and the UTF-8 encoding of what it returns has at most 64 bytes, for every
\* prefix, action and data, data of multi-byte characters included.
C24_CallbackFits ==
    cb.fn = "create_callback_data"
    => /\ StartsWith(cb.ret, cb.args[1] \o <<Colon>> \o cb.args[2] \o <<Colon>>)
       /\ Utf8Len(cb.ret) <= 64

\* C25: safe_decode_title returns None for the empty string, the key t of the
\* library when safe_encode_title(t) is the input, and the input otherwise, so
\* that decoding the encoding of a key gives the key when the keys have
\* distinct encodings.
C25_DecodeFindsKey ==
    LET keys == {books[i] : i \in 1..Len(books)}
        input == cb.args[1]
        distinct == \A t1, t2 \in keys : t1 # t2 => SafeEncodeTitle(t1) # SafeEncodeTitle(t2)
    IN  (cb.fn = "safe_decode_title" /\ distinct)
        => /\ input = <<>> => cb.ret = NoneStr
           /\ \A t \in keys : SafeEncodeTitle(t) = input => cb.ret = t
           /\ (input # <<>> /\ \A t \in keys : SafeEncodeTitle(t) # input) => cb.ret = input

(* ------------------------- banned users' limits ------------------------ *)
\* the events k apart in the sequence of times th are at least window
\* seconds apart: no window seconds hold more than k of them
AtMost(th, k, window) ==
    \A i, j \in 1..Len(th) : j - i = k => th[j] - th[i] >= window

\* C26: of the events of one banned identity that pass the spam guard, at
\* most 3 fall in any 60 seconds, at most 10 in any 3600 seconds and at most
\* 30 in any 86400 seconds.
C26_BannedLimits ==
    \A id \in Ids :
        /\ AtMost(through[id], MinuteLimit, MinuteWindow)
        /\ AtMost(through[id], HourLimit, HourWindow)
        /\ AtMost(through[id], DayLimit, DayWindow)

(* ------------------------------ ban claims ----------------------------- *)
\* C27: a user whose stored status is "banned" becomes "active" only by an
\* administrator's unban, never through /register and the secret phrase.
C27_BannedStaysBanned ==
    [][\A id \in Ids :
          (users[id] = "banned" /\ users'[id] = "active")
              => (last'.op = "unban" /\ last'.id \in Admins)]_vars

(* ----------------------------- service claims -------------------------- *)
\* C28: a successful create_event returns an ID that was not a key of the
\* events store before the call, and the number of events grows by exactly 1.
C28_UniqueEventId ==
    (io.fn = "create_event" /\ io.ret # NoId)
    => /\ io.ret \notin DOMAIN io.before
       /\ Cardinality(DOMAIN GetAllEvents(event_store, now).data)
             = Cardinality(DOMAIN io.before) + 1

\* C29: when ban_user, unban_user or activate_user returns False because
\* saving failed, get_user returns for that user the data it returned before
\* the call.
C29_FailedUpdateKeepsData ==
    (io.fn \in {"ban_user", "unban_user", "activate_user"}
        /\ io.ret = FALSE /\ io.arg \in DOMAIN io.before)
    => Stored(user_store, io.arg, now) = io.before[io.arg]

(* ---------------------------- broadcast claims ------------------------- *)
\* C30: when send_broadcast_async ends, delivery was attempted exactly once
\* for every user of the dictionary, whatever failed on the way, and every
\* user is counted once: successful + failed = total_users.
C30_BroadcastAccounting ==
    bc.pc = "done"
    => /\ \A u \in 1..bc.total_users : bc.attempts[u] = 1
       /\ bc.successful + bc.failed = bc.total_users

====
